---- MODULE Spec2Model ----
(***************************************************************************)
(* A model of node-nntp: the multi-line framer (MultilineStream) and the   *)
(* session controller (NNTP) with its per-command response pipeline        *)
(* (getResponse/done).                                                     *)
(*                                                                         *)
(* Text is modelled as a sequence of one-character strings, so that the    *)
(* JavaScript string operations the code uses (substr, slice, trim, split) *)
(* are computed character by character.                                    *)
(*                                                                         *)
(* Three specifications share the module:                                  *)
(*   SpecFramer   one MultilineStream fed a byte sequence in chunks;       *)
(*   Spec         one NNTP object, its socket, the server and the callers; *)
(*   SpecParsers  the parsing done by the callbacks of article, group,     *)
(*                xover and xzver, applied to one delivered response.      *)
(***************************************************************************)
EXTENDS Integers, Sequences, FiniteSets, TLC

VARIABLES
  \* ---- MultilineStream (SpecFramer) ----
  body,        \* the lines the peer sends, each followed by CR LF
  terminated,  \* whether the peer ends them with the terminator line
  sent,        \* how many bytes of the input have been written to the stream
  buffer,      \* `buffer` of MultilineStream
  pushed,      \* the lines handed to self.push, in order
  ended,       \* this.end() has been called
  endedAt,     \* the value of `sent` when this.end() was called (0: not yet)
  lateWrites,  \* chunks written to the stream after this.end()
  \* ---- NNTP (Spec) ----
  socket,        \* "none" before connect, then "open", "ended" or "errored"
  writeEnded,    \* socket.end() has been called (disconnect)
  endListener,   \* disconnect's once('end') listener is registered
  isConnected,   \* self.isConnected: "undefined", "true" or "false"
  password,      \* self.options.password: "undefined" or "secret"
  ops,           \* the getResponse calls so far, in call order
  wire,          \* the chunks on their way from the server to the socket
  inbox,         \* the operations whose command the server has not answered
  written,       \* the command lines written to the socket, in order
  crashed,       \* an exception or 'error' event nobody handles ended the process
  domainCatches, \* whether the domain still catches after d.exit() (see Throw)
  disconnects,   \* how often disconnect's callback has run
  overlapped,    \* history: a command was issued while an operation was awaiting
  \* ---- the parsing callbacks (SpecParsers) ----
  call,          \* the response a callback is invoked with, and for which command
  result         \* what the callback hands to the caller's callback

framerVars == <<body, terminated, sent, buffer, pushed, ended, endedAt, lateWrites>>

sessionVars ==
  <<socket, writeEnded, endListener, isConnected, password, ops, wire, inbox,
    written, crashed, domainCatches, disconnects, overlapped>>

parserVars == <<call, result>>

vars == <<framerVars, sessionVars, parserVars>>

----------------------------------------------------------------------------
(* Characters and the string operations of JavaScript used by the code.    *)

CR == "\r"
LF == "\n"
CRLF == <<CR, LF>>
Terminator == <<".", CR, LF>>

\* The characters String.prototype.trim removes (those the model's text uses).
WhiteSpace == {" ", "\t", CR, LF}

\* s.substr(-n): the last n characters, the whole string when it is shorter.
SubstrLast(s, n) ==
  IF Len(s) <= n THEN s ELSE SubSeq(s, Len(s) - n + 1, Len(s))

\* s.slice(0, -n): all but the last n characters.
SliceOff(s, n) ==
  IF Len(s) <= n THEN <<>> ELSE SubSeq(s, 1, Len(s) - n)

RECURSIVE TrimLeft(_)
TrimLeft(s) ==
  IF s # <<>> /\ Head(s) \in WhiteSpace THEN TrimLeft(Tail(s)) ELSE s

RECURSIVE TrimRight(_)
TrimRight(s) ==
  IF s # <<>> /\ s[Len(s)] \in WhiteSpace
    THEN TrimRight(SubSeq(s, 1, Len(s) - 1))
    ELSE s

\* s.trim()
Trim(s) == TrimRight(TrimLeft(s))

\* s.split('\r\n'): the pieces between the occurrences of CR LF, scanned from
\* the left; the empty string splits into one empty piece.
RECURSIVE SplitFrom(_, _, _)
SplitFrom(s, i, cur) ==
  IF i > Len(s) THEN <<cur>>
  ELSE IF i < Len(s) /\ s[i] = CR /\ s[i + 1] = LF
    THEN <<cur>> \o SplitFrom(s, i + 2, <<>>)
    ELSE SplitFrom(s, i + 1, Append(cur, s[i]))

SplitCRLF(s) == SplitFrom(s, 1, <<>>)

\* The array f[1], ..., f[n] (built element by element, so that TLC holds it
\* as a sequence).
RECURSIVE Array(_, _)
Array(f, n) == IF n = 0 THEN <<>> ELSE Append(Array(f, n - 1), f[n])

----------------------------------------------------------------------------
(* MultilineStream._transform                                              *)

\* A variant of SeesTerminator that takes any line end for the terminator.
SeesLineEnd(buf) == SubstrLast(buf, 2) = CRLF

\* '.\r\n' === buffer.substr(-3)
SeesTerminator(buf) == SubstrLast(buf, 3) = Terminator

\* buffer.slice(0, -3).trim().split('\r\n'): the lines pushed, in order.
FramedLines(buf) == SplitCRLF(Trim(SliceOff(buf, 3)))

----------------------------------------------------------------------------
(* SpecFramer: the environment of one MultilineStream.                     *)

MaxLines == 2

\* The lines a peer may send in the model: plain, blank, ending in a dot,
\* dot-stuffed, and with leading or trailing blanks.
LineVocabulary ==
  { <<"a">>, <<>>, <<"a", ".">>, <<".", ".", "a">>, <<" ", "a">>, <<"a", " ">> }

RECURSIVE JoinLines(_)
JoinLines(ls) ==
  IF ls = <<>> THEN <<>> ELSE Head(ls) \o CRLF \o JoinLines(Tail(ls))

\* The bytes on the wire for the chosen input.
Bytes == JoinLines(body) \o (IF terminated THEN Terminator ELSE <<>>)

Bodies == UNION { [1..n -> LineVocabulary] : n \in 0..MaxLines }

FramerInit ==
  /\ body \in Bodies
  /\ terminated \in BOOLEAN
  /\ sent = 0
  /\ buffer = <<>>
  /\ pushed = <<>>
  /\ ended = FALSE
  /\ endedAt = 0
  /\ lateWrites = 0

\* _transform(chunk): the next n bytes arrive as one chunk.
Transform(n) ==
  LET chunk == SubSeq(Bytes, sent + 1, sent + n)
      buf == buffer \o chunk
  IN /\ ~ended
     /\ sent + n <= Len(Bytes)
     /\ sent' = sent + n
     /\ buffer' = buf
     /\ IF SeesTerminator(buf)
          THEN /\ pushed' = pushed \o FramedLines(buf)
               /\ ended' = TRUE
               /\ endedAt' = sent + n
          ELSE UNCHANGED <<pushed, ended, endedAt>>
     /\ UNCHANGED <<body, terminated, lateWrites>>

\* A chunk written after this.end(): the stream refuses it (write after end);
\* _transform does not run and nothing is pushed.
WriteAfterEnd(n) ==
  /\ ended
  /\ sent + n <= Len(Bytes)
  /\ sent' = sent + n
  /\ lateWrites' = lateWrites + 1
  /\ UNCHANGED <<body, terminated, buffer, pushed, ended, endedAt>>

FramerNext ==
  \E n \in 1..(Len(Bytes) - sent) : Transform(n) \/ WriteAfterEnd(n)

----------------------------------------------------------------------------
(* Responses.  lib/response.js and lib/streams/response.js are not among   *)
(* the source files; Response and ResponseStream follow the specification  *)
(* (sections 3, 4.3 and 6).                                                *)

NO_SUCH_ARTICLE == 430
ARTICLE_RETRIEVED == 221

\* The value of `response` when no Response was produced (undefined, or the
\* null that done(error, null) passes).
NoResponse == [defined |-> FALSE, status |-> 0, message |-> <<>>, lines |-> <<>>]

Digits == <<"0", "1", "2", "3", "4", "5", "6", "7", "8", "9">>

IsDigit(c) == \E d \in 1..10 : Digits[d] = c

DigitValue(c) == (CHOOSE d \in 1..10 : Digits[d] = c) - 1

\* A status line starts with a 3-digit status code.
WellFormedStatusLine(l) == Len(l) >= 3 /\ \A k \in 1..3 : IsDigit(l[k])

\* Response.createFromString: the status code and the rest of the line.
CreateFromString(l) ==
  [defined |-> TRUE,
   status |-> 100 * DigitValue(l[1]) + 10 * DigitValue(l[2]) + DigitValue(l[3]),
   message |-> SubSeq(l, 5, Len(l)),
   lines |-> <<>>]

\* ResponseStream(true), fed the lines ls the framer pushed before it ended:
\* the first is the status line, the others are the body; one Response, or
\* a parse error for a malformed status line.
MultilineResponse(ls) ==
  IF WellFormedStatusLine(ls[1])
    THEN [out |-> "end",
          response |-> [CreateFromString(ls[1]) EXCEPT !.lines = Tail(ls)]]
    ELSE [out |-> "error", response |-> NoResponse]

\* ResponseStream(false), holding the text `line` and fed a chunk: it consumes
\* exactly one line, the text before the first CR LF, and ends.
SingleLineResponse(line, chunk) ==
  LET pieces == SplitCRLF(line \o chunk)
  IN IF Len(pieces) = 1
       THEN [line |-> line \o chunk, out |-> "wait", response |-> NoResponse]
     ELSE IF WellFormedStatusLine(pieces[1])
       THEN [line |-> line \o chunk, out |-> "end",
             response |-> CreateFromString(pieces[1])]
       ELSE [line |-> line \o chunk, out |-> "error", response |-> NoResponse]

\* What the pipeline getResponse has piped the socket to makes of one chunk:
\* "wait" (no output yet), "end" (one Response, then 'end') or "error" (an
\* error on the pipeline, which the domain hands to done).  With multiline
\* the chunk goes through MultilineStream._transform first.
Pipeline(o, chunk) ==
  IF o.multiline
    THEN LET buf == o.buffer \o chunk
         IN IF SeesTerminator(buf)
              THEN [buffer |-> buf, line |-> o.line]
                     @@ MultilineResponse(FramedLines(buf))
              ELSE [buffer |-> buf, line |-> o.line, out |-> "wait",
                    response |-> NoResponse]
    ELSE [buffer |-> o.buffer] @@ SingleLineResponse(o.line, chunk)

----------------------------------------------------------------------------
(* NNTP: getResponse, done and the callbacks of the operations.  The parts *)
(* of the state a callback can change are passed along as a record S, so   *)
(* that one event can run several callbacks in turn.                       *)

Cur ==
  [ops |-> ops, isConnected |-> isConnected, written |-> written,
   inbox |-> inbox, crashed |-> crashed]

Commit(S) ==
  /\ ops' = S.ops
  /\ isConnected' = S.isConnected
  /\ written' = S.written
  /\ inbox' = S.inbox
  /\ crashed' = S.crashed

\* An operation still awaits its response: getResponse's callback has not run.
Awaiting(o) == o.cbCalls = <<>>

\* getResponse(multiline, false, callback): the socket's 'error' listener and
\* the pipe to a fresh pipeline.  root names the operation whose caller
\* supplied the final callback (0: this one).
GetResponse(S, kind, root, multi) ==
  [S EXCEPT !.ops = Append(@,
     [kind |-> kind,
      root |-> IF root = 0 THEN Len(S.ops) + 1 ELSE root,
      multiline |-> multi,
      piped |-> TRUE,
      errListener |-> TRUE,
      buffer |-> <<>>,
      line |-> <<>>,
      cbCalls |-> <<>>,
      userCalls |-> <<>>,
      answer |-> 0,
      answered |-> FALSE,
      cut |-> FALSE])]

\* socket.write(line) by the operation getResponse has just set up.
Write(S, line) ==
  [S EXCEPT !.written = Append(@, [line |-> line, op |-> Len(S.ops)]),
            !.inbox = Append(@, Len(S.ops))]

\* The final callback of operation i's caller is invoked.
UserCall(S, i, error, value) ==
  [S EXCEPT !.ops[S.ops[i].root].userCalls =
     Append(@, [error |-> error, value |-> value])]

NoValue == [type |-> "none"]

AsValue(response) ==
  IF response.defined THEN [type |-> "response", response |-> response]
  ELSE NoValue

RECURSIVE Done(_, _, _, _)

\* An exception thrown by a callback that done has invoked.  done has called
\* d.exit() before the callback, which leaves the domain only once; whether
\* the domain is then still active, so that its 'error' listener (which done
\* never removes) calls done again, depends on how often the runtime had
\* entered it.  Both outcomes are modelled: domainCatches is fixed per run.
Throw(S, i) ==
  IF domainCatches
    THEN Done(S, i, "TypeError", NoResponse)
    ELSE [S EXCEPT !.crashed = TRUE]

\* connect's callback.
ConnectCallback(S, i, error, response) ==
  UserCall([S EXCEPT !.isConnected = "true"], i, error, AsValue(response))

\* authInfo(type, value, callback): getResponse, then the command line.
AuthInfo(S, type, root) ==
  Write(GetResponse(S, IF type = "USER" THEN "authUser" ELSE "authPass",
                    root, FALSE),
        IF type = "USER" THEN "AUTHINFO USER" ELSE "AUTHINFO PASS")

\* A variant of PasswordWanted that takes every reply for the challenge.
PasswordWantedAnyStatus(response) == response.defined

\* response.status === 381 in authenticate's callback.
PasswordWanted(response) == response.status = 381

\* authenticate's callback for the reply to AUTHINFO USER.
AuthenticateCallback(S, i, error, response) ==
  IF error # "null" THEN UserCall(S, i, error, NoValue)
  ELSE IF ~response.defined THEN Throw(S, i)
  ELSE IF PasswordWanted(response)
    THEN IF password = "undefined"
           THEN UserCall(S, i, "Password is required", NoValue)
           ELSE AuthInfo(S, "PASS", S.ops[i].root)
    ELSE UserCall(S, i, "null", AsValue(response))

\* authInfo hands the caller's callback to getResponse as it is.
AuthInfoCallback(S, i, error, response) ==
  UserCall(S, i, error, AsValue(response))

\* The forEach of article's callback: headers before the first blank line,
\* body after it.
\* A variant of SplitArticle that takes every blank line for a separator.
RECURSIVE SplitArticleAtEveryBlank(_, _, _, _)
SplitArticleAtEveryBlank(ls, inBody, headers, lines) ==
  IF ls = <<>> THEN [type |-> "article", headers |-> headers, body |-> lines]
  ELSE IF Len(Trim(Head(ls))) = 0
    THEN SplitArticleAtEveryBlank(Tail(ls), TRUE, headers, lines)
  ELSE IF inBody
    THEN SplitArticleAtEveryBlank(Tail(ls), TRUE, headers, Append(lines, Head(ls)))
    ELSE SplitArticleAtEveryBlank(Tail(ls), FALSE, Append(headers, Head(ls)), lines)

RECURSIVE SplitArticle(_, _, _, _)
SplitArticle(ls, inBody, headers, lines) ==
  IF ls = <<>> THEN [type |-> "article", headers |-> headers, body |-> lines]
  ELSE IF Len(Trim(Head(ls))) = 0 /\ ~inBody
    THEN SplitArticle(Tail(ls), TRUE, headers, lines)
  ELSE IF inBody
    THEN SplitArticle(Tail(ls), TRUE, headers, Append(lines, Head(ls)))
    ELSE SplitArticle(Tail(ls), FALSE, Append(headers, Head(ls)), lines)

\* article's callback.
ArticleCallback(S, i, error, response) ==
  IF error # "null" THEN UserCall(S, i, error, NoValue)
  ELSE IF ~response.defined THEN Throw(S, i)
  ELSE IF response.status = NO_SUCH_ARTICLE
    THEN UserCall(S, i, "No such article", NoValue)
  ELSE IF response.status # ARTICLE_RETRIEVED
    THEN UserCall(S, i, "Unexpected response received", NoValue)
    ELSE UserCall(S, i, "null", SplitArticle(response.lines, FALSE, <<>>, <<>>))

\* head's callback.
HeadCallback(S, i, error, response) ==
  IF error # "null" THEN UserCall(S, i, error, NoValue)
  ELSE UserCall(S, i, "null", AsValue(response))

\* stat's callback.
StatCallback(S, i, error, response) ==
  IF error # "null" THEN UserCall(S, i, error, NoValue)
  ELSE UserCall(S, i, "null", AsValue(response))

NO_SUCH_GROUP == 411
GROUP_SELECTED == 211

\* s.split(c) for a one-character separator c.
RECURSIVE SplitAt(_, _, _, _)
SplitAt(s, c, i, cur) ==
  IF i > Len(s) THEN <<cur>>
  ELSE IF s[i] = c THEN <<cur>> \o SplitAt(s, c, i + 1, <<>>)
  ELSE SplitAt(s, c, i + 1, Append(cur, s[i]))

SplitOn(s, c) == SplitAt(s, c, 1, <<>>)

\* JavaScript values of the results: a string, undefined, an integer, NaN.
Str(s) == [t |-> "string", s |-> s, n |-> 0]
Undefined == [t |-> "undefined", s |-> <<>>, n |-> 0]
Num(n) == [t |-> "number", s |-> <<>>, n |-> n]
NaN == [t |-> "NaN", s |-> <<>>, n |-> 0]

\* parts[k] of a JavaScript array (k counted from 0).
Element(parts, k) ==
  IF k + 1 <= Len(parts) THEN Str(parts[k + 1]) ELSE Undefined

\* The longest prefix of s made of decimal digits.
RECURSIVE DigitPrefix(_)
DigitPrefix(s) ==
  IF s # <<>> /\ IsDigit(Head(s)) THEN <<Head(s)>> \o DigitPrefix(Tail(s))
  ELSE <<>>

RECURSIVE DecimalValue(_)
DecimalValue(ds) ==
  IF ds = <<>> THEN 0
  ELSE 10 * DecimalValue(SubSeq(ds, 1, Len(ds) - 1)) + DigitValue(ds[Len(ds)])

\* parseInt(v, 10): leading white space and a sign are skipped, the digits
\* that follow are the value; NaN when there is none (also for undefined).
ParseInt(v) ==
  IF v.t # "string" THEN NaN
  ELSE LET u == TrimLeft(v.s)
           signed == u # <<>> /\ Head(u) \in {"+", "-"}
           ds == DigitPrefix(IF signed THEN Tail(u) ELSE u)
       IN IF ds = <<>> THEN NaN
          ELSE IF signed /\ Head(u) = "-" THEN Num(0 - DecimalValue(ds))
          ELSE Num(DecimalValue(ds))

\* A variant of GroupResult that takes the last token for the name.
GroupResultLastName(message) ==
  LET messageParts == SplitOn(message, " ")
  IN [type |-> "group",
      name |-> Element(messageParts, Len(messageParts) - 1),
      count |-> ParseInt(Element(messageParts, 0)),
      first |-> ParseInt(Element(messageParts, 1)),
      last |-> ParseInt(Element(messageParts, 2))]

\* group: the result built from response.message.
GroupResult(message) ==
  LET messageParts == SplitOn(message, " ")
  IN [type |-> "group",
      name |-> Element(messageParts, 3),
      count |-> ParseInt(Element(messageParts, 0)),
      first |-> ParseInt(Element(messageParts, 1)),
      last |-> ParseInt(Element(messageParts, 2))]

\* group's callback on a delivered response: what it hands to the caller.
GroupReply(response) ==
  IF response.status = NO_SUCH_GROUP
    THEN [type |-> "error", error |-> "No such group"]
  ELSE IF response.status # GROUP_SELECTED
    THEN [type |-> "error", error |-> "Unexpected response received"]
    ELSE GroupResult(response.message)

\* callback(error, response) at the end of done.
Callback(S, i, error, response) ==
  CASE S.ops[i].kind = "connect" -> ConnectCallback(S, i, error, response)
    [] S.ops[i].kind = "authUser" -> AuthenticateCallback(S, i, error, response)
    [] S.ops[i].kind = "authPass" -> AuthInfoCallback(S, i, error, response)
    [] S.ops[i].kind = "article" -> ArticleCallback(S, i, error, response)
    [] S.ops[i].kind = "head" -> HeadCallback(S, i, error, response)
    [] S.ops[i].kind = "stat" -> StatCallback(S, i, error, response)

\* A variant of Detach that leaves the pipes and listeners in place.
DetachNothing(os) == os

\* socket.unpipe(), removeAllListeners('data') and removeAllListeners('error'):
\* every pipe and every 'error' listener of the socket goes, whichever
\* operation set it up.  No chunk reaches a pipeline cut off from the socket,
\* so what its streams had buffered is dropped with them.
Detach(os) ==
  Array([k \in 1..Len(os) |->
           [os[k] EXCEPT !.piped = FALSE, !.errListener = FALSE,
                         !.buffer = <<>>, !.line = <<>>]],
        Len(os))

\* done(error, response) of operation i.
Done(S, i, error, response) ==
  IF S.crashed THEN S
  ELSE Callback(
         [S EXCEPT !.ops = [Detach(S.ops) EXCEPT ![i].cbCalls =
            Append(@, [error |-> error, response |-> response])]],
         i, error, response)

\* The done calls one event leads to, in turn.
RECURSIVE DoneAll(_, _)
DoneAll(S, todo) ==
  IF todo = <<>> THEN S
  ELSE IF ~Head(todo).run THEN DoneAll(S, Tail(todo))
  ELSE DoneAll(Done(S, Head(todo).op, Head(todo).error, Head(todo).response),
               Tail(todo))

----------------------------------------------------------------------------
(* xover, xzver and parseOverview.  A format mapping is modelled as the     *)
(* sequence of its entries [key, full] in key order (the order in which    *)
(* for..in visits the keys: the order of their first assignment).          *)

\* A variant of Xtend that adds no `number` key.
XtendNothing(format) == format

\* xtend({number: false}, format): `number` is the first key; an entry for
\* it in format decides its flag without moving it.
Xtend(format) ==
  LET own == SelectSeq(format, LAMBDA e : e.key = "number")
      others == SelectSeq(format, LAMBDA e : e.key # "number")
  IN <<[key |-> "number", full |-> IF own = <<>> THEN FALSE ELSE own[1].full]>>
       \o others

\* messagePart.substring(messagePart.indexOf(':') + 1): what follows the
\* first colon, the whole string when it has none (indexOf gives -1).
RECURSIVE AfterColon(_)
AfterColon(s) ==
  IF \A i \in 1..Len(s) : s[i] # ":" THEN s
  ELSE IF Head(s) = ":" THEN Tail(s)
  ELSE AfterColon(Tail(s))

Throws == [t |-> "throws", s |-> <<>>, n |-> 0]

\* format[field] ? messagePart.substring(...).trim() : messagePart, where
\* messagePart is undefined when the line has no token left for the field.
FieldValue(messagePart, full) ==
  IF ~full THEN messagePart
  ELSE IF messagePart.t = "undefined" THEN Throws
  ELSE Str(Trim(AfterColon(messagePart.s)))

\* The message built from one line: the j-th key gets the j-th token.
OverviewMessage(line, format) ==
  LET messageParts == SplitOn(line, "\t")
  IN Array([j \in 1..Len(format) |->
              [key |-> format[j].key,
               value |-> FieldValue(Element(messageParts, j - 1), format[j].full)]],
           Len(format))

\* parseOverview(overview, format): the messages in line order, or the
\* TypeError thrown when a full field finds no token.
ParseOverview(overview, format) ==
  LET messages == Array([i \in 1..Len(overview) |->
                           OverviewMessage(overview[i], format)],
                        Len(overview))
  IN IF \E i \in 1..Len(messages) : \E j \in 1..Len(format) :
          messages[i][j].value = Throws
       THEN [type |-> "throw", error |-> "TypeError"]
       ELSE [type |-> "overview", messages |-> messages]

\* xover's and xzver's callback on a delivered response.
XoverReply(response, format) == ParseOverview(response.lines, Xtend(format))

----------------------------------------------------------------------------
(* Spec: the callers, the server and the socket's events.                  *)

\* At most MaxOps getResponse calls in a run.
MaxOps == 3

\* A reply cut in two is cut after at most MaxCut bytes.
MaxCut == 1

Greeting == <<"2", "0", "0", " ", "x", CR, LF>>
MoreInput == <<"3", "8", "1", " ", "x", CR, LF>>
Accepted == <<"2", "8", "1", " ", "x", CR, LF>>
Exists == <<"2", "2", "3", " ", "x", CR, LF>>
Retrieved == <<"2", "2", "1", " ", "x", CR, LF>>
NoSuchArticle == <<"4", "3", "0", " ", "x", CR, LF>>
NoSuchArticleDot == <<"4", "3", "0", " ", "x", ".", CR, LF>>
Garbled == <<"x", CR, LF>>
ArticleText ==
  <<"2", "2", "1", " ", "x", CR, LF, "h", CR, LF, CR, LF, "b", CR, LF>>
    \o Terminator

\* What the server may answer to the command of an operation.
RepliesFor(kind) ==
  CASE kind = "connect" -> {Greeting}
    [] kind = "authUser" -> {MoreInput, Accepted}
    [] kind = "authPass" -> {Accepted}
    [] kind = "article" -> {ArticleText, NoSuchArticle, NoSuchArticleDot}
    [] kind = "head" -> {Retrieved, NoSuchArticle}
    [] kind = "stat" -> {Exists, NoSuchArticle, Garbled}

SessionInit ==
  /\ socket = "none"
  /\ writeEnded = FALSE
  /\ endListener = FALSE
  /\ isConnected = "undefined"
  /\ password \in {"undefined", "secret"}
  /\ ops = <<>>
  /\ wire = <<>>
  /\ inbox = <<>>
  /\ written = <<>>
  /\ crashed = FALSE
  /\ domainCatches \in BOOLEAN
  /\ disconnects = 0
  /\ overlapped = FALSE

\* connect(callback): the socket, then getResponse for the greeting.
Connect ==
  /\ socket = "none"
  /\ ~crashed
  /\ socket' = "open"
  /\ Commit([GetResponse(Cur, "connect", 0, FALSE) EXCEPT
               !.inbox = Append(@, Len(ops) + 1)])
  /\ UNCHANGED <<writeEnded, endListener, password, wire, domainCatches,
                 disconnects, overlapped>>
  /\ UNCHANGED <<framerVars, parserVars>>

\* A caller may issue a command whenever the socket exists: nothing in the
\* code looks at the operations already awaiting.
CanIssue(room) ==
  /\ socket = "open"
  /\ ~writeEnded
  /\ ~crashed
  /\ Len(ops) + room <= MaxOps

Issued(S) ==
  /\ Commit(S)
  /\ overlapped' = (overlapped \/ \E k \in 1..Len(ops) : Awaiting(ops[k]))
  /\ UNCHANGED <<socket, writeEnded, endListener, password, wire,
                 domainCatches, disconnects>>
  /\ UNCHANGED <<framerVars, parserVars>>

\* authenticate(callback)
Authenticate ==
  /\ CanIssue(2)
  /\ Issued(AuthInfo(Cur, "USER", 0))

\* article(messageId, callback)
Article ==
  /\ CanIssue(1)
  /\ Issued(Write(GetResponse(Cur, "article", 0, TRUE), "ARTICLE"))

\* head(messageId, callback)
HeadOp ==
  /\ CanIssue(1)
  /\ Issued(Write(GetResponse(Cur, "head", 0, FALSE), "HEAD"))

\* stat(messageId, callback)
Stat ==
  /\ CanIssue(1)
  /\ Issued(Write(GetResponse(Cur, "stat", 0, FALSE), "STAT"))

\* disconnect(callback)
Disconnect ==
  /\ socket = "open"
  /\ ~writeEnded
  /\ ~crashed
  /\ writeEnded' = TRUE
  /\ endListener' = TRUE
  /\ UNCHANGED <<socket, isConnected, password, ops, wire, inbox, written,
                 crashed, domainCatches, disconnects, overlapped>>
  /\ UNCHANGED <<framerVars, parserVars>>

\* The server answers the oldest unanswered command with reply r, which
\* travels as one chunk (k = 0) or as two, cut after its k-th byte.
ServerReply(r, k) ==
  /\ socket = "open"
  /\ ~crashed
  /\ wire = <<>>
  /\ inbox # <<>>
  /\ r \in RepliesFor(ops[Head(inbox)].kind)
  /\ k < Len(r)
  /\ k <= MaxCut
  /\ wire' = IF k = 0
               THEN <<[bytes |-> r, op |-> Head(inbox), last |-> TRUE]>>
               ELSE <<[bytes |-> SubSeq(r, 1, k), op |-> Head(inbox),
                       last |-> FALSE],
                      [bytes |-> SubSeq(r, k + 1, Len(r)), op |-> Head(inbox),
                       last |-> TRUE]>>
  /\ ops' = [ops EXCEPT ![Head(inbox)].answer =
                IF WellFormedStatusLine(r) THEN CreateFromString(r).status ELSE 0]
  /\ inbox' = Tail(inbox)
  /\ UNCHANGED <<socket, writeEnded, endListener, isConnected, password,
                 written, crashed, domainCatches, disconnects, overlapped>>
  /\ UNCHANGED <<framerVars, parserVars>>

\* The socket emits 'data': every pipeline piped to it gets the chunk; those
\* that end, or fail, then call done.  With no pipe the socket is paused
\* and the chunk waits.
SocketData ==
  /\ socket = "open"
  /\ ~crashed
  /\ wire # <<>>
  /\ \E k \in 1..Len(ops) : ops[k].piped
  /\ LET c == Head(wire)
         fed == [k \in 1..Len(ops) |-> Pipeline(ops[k], c.bytes)]
         took == [k \in 1..Len(ops) |->
                    IF ops[k].piped
                      THEN [ops[k] EXCEPT !.buffer = fed[k].buffer,
                                          !.line = fed[k].line]
                      ELSE ops[k]]
         seen == Array([k \in 1..Len(ops) |->
                          IF k = c.op /\ c.last
                            THEN [took[k] EXCEPT !.answered = TRUE]
                            ELSE took[k]],
                       Len(ops))
         todo == Array([k \in 1..Len(ops) |->
                          [run |-> ops[k].piped /\ fed[k].out # "wait",
                           op |-> k,
                           error |-> IF fed[k].out = "end" THEN "null"
                                     ELSE "parse error",
                           response |-> fed[k].response]],
                       Len(ops))
     IN Commit(DoneAll([Cur EXCEPT !.ops = seen], todo))
  /\ wire' = Tail(wire)
  /\ UNCHANGED <<socket, writeEnded, endListener, password, domainCatches,
                 disconnects, overlapped>>
  /\ UNCHANGED <<framerVars, parserVars>>

\* The socket emits 'error': each 'error' listener calls done(error, null);
\* with no listener the event is thrown.
SocketError ==
  /\ socket = "open"
  /\ ~crashed
  /\ socket' = "errored"
  /\ wire' = <<>>
  /\ LET todo == Array([k \in 1..Len(ops) |->
                          [run |-> ops[k].errListener, op |-> k,
                           error |-> "socket error", response |-> NoResponse]],
                       Len(ops))
     IN IF \E k \in 1..Len(ops) : ops[k].errListener
          THEN Commit(DoneAll(Cur, todo))
          ELSE Commit([Cur EXCEPT !.crashed = TRUE])
  /\ UNCHANGED <<writeEnded, endListener, password, domainCatches,
                 disconnects, overlapped>>
  /\ UNCHANGED <<framerVars, parserVars>>

\* The socket emits 'end' (the server has closed its side): disconnect's
\* listener runs, and every pipeline piped to the socket is ended and ends
\* without a Response, so that `response` is still undefined in done.
SocketEnd ==
  /\ socket = "open"
  /\ ~crashed
  /\ wire = <<>>
  /\ socket' = "ended"
  /\ endListener' = FALSE
  /\ disconnects' = IF endListener THEN disconnects + 1 ELSE disconnects
  /\ LET marked == Array([k \in 1..Len(ops) |->
                            [ops[k] EXCEPT !.cut = writeEnded /\ Awaiting(ops[k])]],
                         Len(ops))
         todo == Array([k \in 1..Len(ops) |->
                          [run |-> ops[k].piped, op |-> k, error |-> "null",
                           response |-> NoResponse]],
                       Len(ops))
     IN Commit(DoneAll(
          [Cur EXCEPT !.ops = marked,
                      !.isConnected = IF endListener THEN "false" ELSE @],
          todo))
  /\ UNCHANGED <<writeEnded, password, wire, domainCatches, overlapped>>
  /\ UNCHANGED <<framerVars, parserVars>>

FramerIdle ==
  /\ body = <<>>
  /\ terminated = FALSE
  /\ sent = 0
  /\ buffer = <<>>
  /\ pushed = <<>>
  /\ ended = FALSE
  /\ endedAt = 0
  /\ lateWrites = 0

SessionIdle ==
  /\ SessionInit
  /\ password = "undefined"
  /\ domainCatches = FALSE

ParserIdle ==
  /\ call = [fn |-> "none"]
  /\ result = [type |-> "pending"]

Init == SessionInit /\ FramerIdle /\ ParserIdle

Next ==
  \/ Connect
  \/ Authenticate
  \/ Article
  \/ HeadOp
  \/ Stat
  \/ Disconnect
  \/ \E r \in UNION { RepliesFor(ops[k].kind) : k \in 1..Len(ops) } :
       \E k \in 0..MaxCut : ServerReply(r, k)
  \/ SocketData
  \/ SocketError
  \/ SocketEnd

Spec == Init /\ [][Next]_vars

FramerStep == FramerNext /\ UNCHANGED <<sessionVars, parserVars>>

InitFramer == FramerInit /\ SessionIdle /\ ParserIdle

SpecFramer == InitFramer /\ [][FramerStep]_vars
----------------------------------------------------------------------------
(* SpecParsers: one callback of article, group, xover or xzver is invoked  *)
(* with a delivered response and parses it.                                *)

\* The response lines of an article have at most MaxArticleLines lines.
MaxArticleLines == 3

\* Header or body lines, empty lines and lines of blanks only.
ArticleLineVocabulary == { <<"h">>, <<>>, <<" ">> }

ArticleCalls ==
  { [fn |-> "article", lines |-> ls] :
      ls \in UNION { [1..n -> ArticleLineVocabulary] : n \in 0..MaxArticleLines } }

\* The message of a group reply has at most MaxTokens pieces between blanks.
MaxTokens == 5

\* Numbers, a name, and the empty piece two adjacent blanks leave.
TokenVocabulary == { <<"7">>, <<"1", "2">>, <<"g">>, <<>> }

RECURSIVE JoinTokens(_)
JoinTokens(ts) ==
  IF ts = <<>> THEN <<>>
  ELSE IF Len(ts) = 1 THEN Head(ts)
  ELSE Head(ts) \o <<" ">> \o JoinTokens(Tail(ts))

GroupStatusCodes ==
  { <<"2", "1", "1">>, <<"4", "1", "1">>, <<"5", "0", "0">> }

\* The status line of a group reply: the code, a blank, the message.
GroupCalls ==
  { [fn |-> "group", tokens |-> ts, line |-> code \o <<" ">> \o JoinTokens(ts)] :
      ts \in UNION { [1..n -> TokenVocabulary] : n \in 1..MaxTokens },
      code \in GroupStatusCodes }

\* An overview has at most MaxOverviewLines lines of at most MaxLineTokens
\* tab-separated tokens, MaxCallTokens tokens in all, and a format at most
\* MaxFormatKeys keys.
MaxOverviewLines == 2
MaxLineTokens == 3
MaxCallTokens == 4
MaxFormatKeys == 2

\* A bare token, and one with a field name, blanks and a second colon.
OverviewTokens == { <<"4">>, <<"F", ":", " ", "a", ":", "b">> }

FormatKeys == { "subject", "from", "number" }

RECURSIVE JoinTabs(_)
JoinTabs(ts) ==
  IF ts = <<>> THEN <<>>
  ELSE IF Len(ts) = 1 THEN Head(ts)
  ELSE Head(ts) \o <<"\t">> \o JoinTabs(Tail(ts))

OverviewRows == UNION { [1..n -> OverviewTokens] : n \in 1..MaxLineTokens }

\* The format mappings a caller may supply: distinct keys, any flags.
Formats ==
  { f \in UNION { [1..n -> [key : FormatKeys, full : BOOLEAN]] :
                    n \in 0..MaxFormatKeys } :
      \A a, b \in 1..Len(f) : a # b => f[a].key # f[b].key }

RECURSIVE TokenCount(_)
TokenCount(rs) ==
  IF rs = <<>> THEN 0 ELSE Len(Head(rs)) + TokenCount(Tail(rs))

\* rows: the tokens of each response line; the lines are made of them.
OverviewCalls ==
  { [fn |-> "xover", rows |-> rs, format |-> f] :
      rs \in { x \in UNION { [1..n -> OverviewRows] : n \in 0..MaxOverviewLines } :
                 TokenCount(x) <= MaxCallTokens },
      f \in Formats }

OverviewLines(rs) == Array([i \in 1..Len(rs) |-> JoinTabs(rs[i])], Len(rs))

ParserCalls == ArticleCalls \cup GroupCalls \cup OverviewCalls

ParsersInit ==
  /\ call \in ParserCalls
  /\ result = [type |-> "pending"]

\* article's callback, on a response with status ARTICLE_RETRIEVED.
ParseArticle ==
  /\ call.fn = "article"
  /\ result.type = "pending"
  /\ result' = SplitArticle(call.lines, FALSE, <<>>, <<>>)
  /\ UNCHANGED call

\* group's callback, on the response made of the status line.
ParseGroup ==
  /\ call.fn = "group"
  /\ result.type = "pending"
  /\ result' = GroupReply(CreateFromString(call.line))
  /\ UNCHANGED call

\* xover's (and xzver's) callback, on a response with the overview lines.
ParseXover ==
  /\ call.fn = "xover"
  /\ result.type = "pending"
  /\ result' = XoverReply([NoResponse EXCEPT !.defined = TRUE,
                                             !.lines = OverviewLines(call.rows)],
                          call.format)
  /\ UNCHANGED call

ParsersNext ==
  \/ ParseArticle
  \/ ParseGroup
  \/ ParseXover

ParsersStep == ParsersNext /\ UNCHANGED <<framerVars, sessionVars>>

InitParsers == ParsersInit /\ SessionIdle /\ FramerIdle

SpecParsers == InitParsers /\ [][ParsersStep]_vars
----------------------------------------------------------------------------
(* Claims about the framer, checked under SpecFramer.                      *)

\* Whether line l arrives dot-stuffed.
DotStuffed(l) == Len(l) >= 2 /\ l[1] = "." /\ l[2] = "."

\* C1: for a terminated multi-line response, however its bytes are split into
\* chunks, the framer signals end-of-stream after the final byte and has then
\* pushed the lines it pushes when the bytes arrive as one chunk.
C1_ChunkingIndependent ==
  terminated =>
    /\ (sent = Len(Bytes) => ended)
    /\ (ended => endedAt = Len(Bytes) /\ pushed = FramedLines(Bytes))

\* C5: when the bytes are the terminator only, the framer pushes no line
\* before it signals end-of-stream.
C5_EmptyBodyNoLines ==
  (body = <<>> /\ terminated /\ ended) => pushed = <<>>

\* C6: every body line that arrives dot-stuffed is pushed with exactly one
\* leading dot removed (stated for the runs in which the framer ended at the
\* final byte and pushed one line per body line).
C6_DotStuffedUnescaped ==
  (terminated /\ ended /\ endedAt = Len(Bytes) /\ Len(pushed) = Len(body)) =>
    \A i \in 1..Len(body) : DotStuffed(body[i]) => pushed[i] = Tail(body[i])

\* C15: the framer has pushed a line or signalled end-of-stream only if the
\* bytes accumulated at that chunk ended with '.' CR LF; while no chunk has
\* ended so, nothing is pushed and the stream has not ended.
C15_NothingBeforeTerminator ==
  /\ ~ended => pushed = <<>>
  /\ ended =>
       /\ endedAt >= 3
       /\ buffer = SubSeq(Bytes, 1, endedAt)
       /\ SubSeq(Bytes, endedAt - 2, endedAt) = Terminator

\* C15's case: a whole input without the terminator line has arrived and the
\* framer holds it, with nothing pushed and no end.
C15_HeldWithoutTerminator ==
  /\ ~terminated
  /\ Len(body) = MaxLines
  /\ sent = Len(Bytes)
  /\ buffer = Bytes
  /\ ~ended
  /\ pushed = <<>>

\* C16: once the framer has seen the terminator line of a body of at least
\* one line and ended at the final byte, the lines it has pushed are exactly
\* the lines received, in order, none dropped, added or altered.
C16_LinesExactlyAsReceived ==
  (terminated /\ body # <<>> /\ ended /\ endedAt = Len(Bytes)) => pushed = body
----------------------------------------------------------------------------
(* Claims about the session controller, checked under Spec.                *)

OpIds == 1..Len(ops)

\* The calls of the final callback that operation k's caller supplied.
UserCalls(k) == ops[ops[k].root].userCalls

\* The operations whose AUTHINFO PASS line has been written for USER op k.
PassOps(k) ==
  { w \in 1..Len(written) :
      written[w].line = "AUTHINFO PASS" /\ ops[written[w].op].root = k }

\* C2: at most one operation is awaiting its response at any time.
C2_AtMostOneAwaiting ==
  Cardinality({ k \in OpIds : Awaiting(ops[k]) }) <= 1

\* C3: getResponse's callback is never invoked twice for one call, and once
\* the socket has emitted 'error' it has been invoked exactly once for every
\* call made before.
C3_CallbackExactlyOnce ==
  /\ \A k \in OpIds : Len(ops[k].cbCalls) <= 1
  /\ socket = "errored" => \A k \in OpIds : Len(ops[k].cbCalls) = 1

\* C4: once the server's 430 status line in answer to an ARTICLE command has
\* arrived in full, the article callback has been invoked, once, with the
\* 'No such article' error (stated for commands issued one at a time).
C4_NoSuchArticleReported ==
  \A k \in OpIds :
    (~overlapped /\ ops[k].kind = "article" /\ ops[k].answer = NO_SUCH_ARTICLE
       /\ ops[k].answered)
      => UserCalls(k) = <<[error |-> "No such article", value |-> NoValue]>>

\* C7: AUTHINFO PASS is written only after the reply to AUTHINFO USER was
\* delivered with status 381 and only with a password configured; with status
\* 381 and no password the callback receives 'Password is required' and no
\* PASS line is written; when the USER exchange fails or returns another
\* status no PASS line is written and the callback receives that error or
\* response.
C7_PassOnlyAfterChallenge ==
  /\ \A w \in 1..Len(written) :
       written[w].line = "AUTHINFO PASS" =>
         LET u == ops[written[w].op].root
         IN /\ password # "undefined"
            /\ ops[u].kind = "authUser"
            /\ \E v \in 1..(w - 1) :
                 written[v].line = "AUTHINFO USER" /\ written[v].op = u
            /\ ops[u].cbCalls # <<>>
            /\ ops[u].cbCalls[1].error = "null"
            /\ ops[u].cbCalls[1].response.defined
            /\ ops[u].cbCalls[1].response.status = 381
  /\ password = "undefined" =>
       \A w \in 1..Len(written) : written[w].line # "AUTHINFO PASS"
  /\ \A k \in OpIds : \A n \in 1..Len(ops[k].cbCalls) :
       LET c == ops[k].cbCalls[n]
       IN ops[k].kind = "authUser" =>
            /\ (c.error = "null" /\ c.response.defined
                  /\ c.response.status = 381 /\ password = "undefined")
                 => /\ PassOps(k) = {}
                    /\ UserCalls(k) =
                         <<[error |-> "Password is required", value |-> NoValue]>>
            /\ (c.error = "null" /\ c.response.defined
                  /\ c.response.status # 381)
                 => /\ PassOps(k) = {}
                    /\ UserCalls(k) =
                         <<[error |-> "null", value |-> AsValue(c.response)]>>
            /\ c.error # "null"
                 => /\ PassOps(k) = {}
                    /\ UserCalls(k) = <<[error |-> c.error, value |-> NoValue]>>

\* C7's case: the challenge was answered with a password configured, the PASS
\* line was written and its reply has reached the caller.
C7_PassWritten ==
  \E k \in OpIds :
    /\ ops[k].kind = "authUser"
    /\ PassOps(k) # {}
    /\ UserCalls(k) # <<>>
    /\ UserCalls(k)[1].error = "null"

C9_DisconnectAbortsWithError ==
  \A k \in OpIds :
    ops[k].cut =>
      /\ UserCalls(k) # <<>>
      /\ \A n \in 1..Len(UserCalls(k)) : UserCalls(k)[n].error # "null"

\* C10: when the reply to head or stat has status 430, the callback receives
\* the 'No such article' error, not the response.
C10_HeadStatNoSuchArticle ==
  \A k \in OpIds : \A n \in 1..Len(ops[k].cbCalls) :
    (ops[k].kind \in {"head", "stat"}
       /\ ops[k].cbCalls[n].response.defined
       /\ ops[k].cbCalls[n].response.status = NO_SUCH_ARTICLE)
      => UserCalls(k) = <<[error |-> "No such article", value |-> NoValue]>>

\* C17: an operation whose callback has been invoked, with a response or
\* with an error, has no pipe from the socket and no 'error' listener on it,
\* and its pipeline holds no bytes: nothing that arrives later is fed to it.
C17_DetachedBeforeCallback ==
  \A k \in OpIds :
    ops[k].cbCalls # <<>> =>
      /\ ~ops[k].piped
      /\ ~ops[k].errListener
      /\ ops[k].buffer = <<>>
      /\ ops[k].line = <<>>

\* C17's case: commands issued one at a time; after the callback of one
\* operation the whole reply to a later one has arrived.
C17_LaterReplyArrived ==
  /\ ~overlapped
  /\ \E k \in OpIds :
       /\ k < Len(ops)
       /\ ops[k].cbCalls # <<>>
       /\ ops[k + 1].answered
       /\ ops[k + 1].cbCalls # <<>>

\* The operations whose callback is invoked with an error in this step.
FailedNow(k) ==
  /\ k \in OpIds
  /\ Len(ops'[k].cbCalls) > Len(ops[k].cbCalls)
  /\ ops'[k].cbCalls[Len(ops'[k].cbCalls)].error # "null"

\* C18: in a step in which an operation's callback is invoked with an error,
\* the controller does not end the socket, and isConnected changes only if
\* disconnect's listener runs in that step (the socket has ended).
C18_ErrorLeavesConnection ==
  [][(\E k \in OpIds : FailedNow(k)) =>
       /\ writeEnded' = writeEnded
       /\ isConnected' =
            IF socket' = "ended" /\ endListener THEN "false" ELSE isConnected]_vars

\* C19: isConnected is true only if connect's callback was invoked with the
\* greeting as response, and is not true once it was invoked with an error.
C19_ConnectedOnlyAfterGreeting ==
  \A k \in OpIds :
    ops[k].kind = "connect" =>
      /\ isConnected = "true" =>
           /\ ops[k].cbCalls # <<>>
           /\ ops[k].cbCalls[1].error = "null"
           /\ ops[k].cbCalls[1].response.defined
      /\ (ops[k].cbCalls # <<>> /\ ops[k].cbCalls[1].error # "null") =>
           isConnected # "true"

\* C20: while the process runs, an operation whose command line has been
\* written and whose callback has not been invoked has its pipeline piped to
\* the socket and its 'error' listener on it.
C20_ListeningWhileAwaiting ==
  \A w \in 1..Len(written) :
    (~crashed /\ Awaiting(ops[written[w].op])) =>
      /\ ops[written[w].op].piped
      /\ ops[written[w].op].errListener
----------------------------------------------------------------------------
(* Claims about the parsing callbacks, checked under SpecParsers.          *)

\* A line with no character other than blanks.
IsBlank(l) == \A i \in 1..Len(l) : l[i] \in {" ", "\t"}

\* The index of the first blank line of ls, Len(ls) + 1 when it has none.
FirstBlank(ls) ==
  IF \E i \in 1..Len(ls) : IsBlank(ls[i])
    THEN CHOOSE i \in 1..Len(ls) :
           IsBlank(ls[i]) /\ \A j \in 1..(i - 1) : ~IsBlank(ls[j])
    ELSE Len(ls) + 1

\* C11: the headers of an article result are the response lines before the
\* first blank line and its body the lines after it, in order, later blank
\* lines included; the first blank line is in neither.
C11_ArticleSplitAtFirstBlank ==
  (call.fn = "article" /\ result.type # "pending") =>
    /\ result.headers = SubSeq(call.lines, 1, FirstBlank(call.lines) - 1)
    /\ result.body =
         SubSeq(call.lines, FirstBlank(call.lines) + 1, Len(call.lines))

\* C11's case: an article with a header line, the separating blank line and
\* a body that holds a blank line has been split.
C11_SplitWithLaterBlank ==
  /\ call.fn = "article"
  /\ result.type = "article"
  /\ result.headers # <<>>
  /\ \E i \in 1..Len(result.body) : IsBlank(result.body[i])

\* The integer a numeric token of the vocabulary stands for.
TokenValue(tok) == IF tok = <<"7">> THEN 7 ELSE 12

Numeric(tok) == tok \in { <<"7">>, <<"1", "2">> }

\* The tokens of a message that are separated by white space.
WhitespaceTokens(ts) == { k \in 1..Len(ts) : ts[k] # <<>> }

GroupSelectedParsed ==
  /\ call.fn = "group"
  /\ SubSeq(call.line, 1, 3) = <<"2", "1", "1">>
  /\ result.type # "pending"

\* C12: for a 211 reply whose message has at least four pieces 'count first
\* last name ...' between blanks, the first three numeric, the callback gets
\* the fourth as name and the integer values of the first three as count,
\* first and last, whatever follows the fourth.
C12_GroupFieldsFromTokens ==
  (GroupSelectedParsed /\ Len(call.tokens) >= 4
     /\ \A k \in 1..3 : Numeric(call.tokens[k]))
    => result = [type |-> "group",
                 name |-> Str(call.tokens[4]),
                 count |-> Num(TokenValue(call.tokens[1])),
                 first |-> Num(TokenValue(call.tokens[2])),
                 last |-> Num(TokenValue(call.tokens[3]))]

\* C12's case: a 211 reply with five tokens has been parsed, count being 12.
C12_FiveTokensParsed ==
  /\ GroupSelectedParsed
  /\ Len(call.tokens) = 5
  /\ call.tokens[5] # call.tokens[4]
  /\ result.type = "group"
  /\ result.count = Num(12)
  /\ result.name = Str(<<"g">>)

\* C13: for a 211 reply whose message has fewer than four tokens separated
\* by white space, the callback receives an error and no group result.
C13_GroupTooFewTokens ==
  (GroupSelectedParsed /\ Cardinality(WhitespaceTokens(call.tokens)) < 4)
    => result.type = "error"

\* What a full field makes of a token of the vocabulary: the text after its
\* first colon without the blanks around it, the token when it has no colon.
FullValue(tok) == IF tok = <<"4">> THEN <<"4">> ELSE <<"a", ":", "b">>

\* The value of the field that is given the pos-th token of row.
Expected(row, pos, full) ==
  IF pos > Len(row) THEN (IF full THEN Throws ELSE Undefined)
  ELSE IF full THEN Str(FullValue(row[pos]))
  ELSE Str(row[pos])

\* The flag of `number`: the supplied one, short when none is supplied.
NumberFull(f) ==
  \E a \in 1..Len(f) : f[a].key = "number" /\ f[a].full

\* The token the a-th supplied key is given when `number` takes the first
\* token and the other supplied keys follow in their order.
Position(f, a) ==
  IF f[a].key = "number" THEN 1
  ELSE 1 + Cardinality({ b \in 1..a : f[b].key # "number" })

XoverParsed == call.fn = "xover" /\ result.type # "pending"

====
